---- MODULE Spec2Model ----
(***************************************************************************)
(* Model of the issue-comment handlers of go-githubapp's example bot.      *)
(*                                                                         *)
(* The repository holds three versions of PRCommentHandler.Handle:         *)
(*   "testpr"        src/example/issue_comment.go:39-119   (/testpr)       *)
(*   "branch_pr"     src/example/issue_comment.go:159-344  (/create-branch *)
(*                   with six steps, /create-pr)                           *)
(*   "branch_testpr" src/unnamed/part_000:39-160  (/create-branch with two *)
(*                   steps, /testpr)                                       *)
(* A deployment runs one of them (variable handler).  Each run of Handle   *)
(* is a process; every action is one blocking gateway round trip together  *)
(* with the local code that follows it up to the next gateway call or the  *)
(* return.  The remote repository (refs, trees, commits, pulls, comments)  *)
(* is shared by all runs and follows the gateway contract of the go-github *)
(* client the handlers call.                                               *)
(***************************************************************************)
EXTENDS Integers, Sequences, FiniteSets, TLC

\* ------------------------------------------------------------------ bounds
MaxEvents == 2
NumProcs == 2
MaxLen == 4
Procs == 1..NumProcs

\* ----------------------------------------------------------- text literals
\* Texts are sequences of one-character strings.
CmdCreateBranch == <<"/", "c", "r", "e", "a", "t", "e", "-", "b", "r", "a", "n", "c", "h">>
CmdCreatePR == <<"/", "c", "r", "e", "a", "t", "e", "-", "p", "r">>
CmdTestPR == <<"/", "t", "e", "s", "t", "p", "r">>
NoneCmd == <<"N", "o", "n", "e">>
BotSuffix == <<"[", "b", "o", "t", "]">>

BodyBranchPlease == <<"/", "c", "r", "e", "a", "t", "e", "-", "b", "r", "a", "n", "c", "h", " ", "p", "l", "e", "a", "s", "e">>
BodyBranchNow == <<"/", "c", "r", "e", "a", "t", "e", "-", "b", "r", "a", "n", "c", "h", "-", "n", "o", "w">>
BodySeeFoo == <<"s", "e", "e", " ", "/", "f", "o", "o">>
BodyLeadingSpace == <<" ", "/", "c", "r", "e", "a", "t", "e", "-", "p", "r">>
BodySlashDash == <<"/", "-", "p", "r">>
BodyEmpty == <<>>

AuthorAlice == <<"a", "l", "i", "c", "e">>
AuthorApp == <<"a", "p", "p", "[", "b", "o", "t", "]">>
AuthorBotPrefix == <<"[", "b", "o", "t", "]", "x">>

Bodies ==
  { CmdCreateBranch, CmdCreatePR, CmdTestPR, BodyBranchPlease, BodyBranchNow,
    BodySeeFoo, BodyLeadingSpace, BodySlashDash, BodyEmpty }

Authors == { AuthorAlice, AuthorApp, AuthorBotPrefix }

Actions == { "created", "edited" }

\* A webhook payload is either unparsable or a parsed issue-comment event.
Malformed == [parsed |-> FALSE, action |-> "", author |-> <<>>, body |-> <<>>]

Events == [parsed : {TRUE}, action : Actions, author : Authors, body : Bodies]

Payloads == Events \cup {Malformed}

\* Every text of at most MaxLen characters over a slash, a letter, a hyphen
\* and a space.
TextAlphabet == { "/", "a", "-", " " }

Texts == UNION { [1..n -> TextAlphabet] : n \in 0..MaxLen }

TextPayloads ==
  [parsed : {TRUE}, action : {"created"}, author : {AuthorAlice},
   body : Texts \cup Bodies]

\* ------------------------------------------------------- command classifier
\* \w of Go's regexp (RE2): [0-9A-Za-z_]
WordChars ==
  { "a", "b", "c", "d", "e", "f", "g", "h", "i", "j", "k", "l", "m", "n", "o",
    "p", "q", "r", "s", "t", "u", "v", "w", "x", "y", "z", "A", "B", "C", "D",
    "E", "F", "G", "H", "I", "J", "K", "L", "M", "N", "O", "P", "Q", "R", "S",
    "T", "U", "V", "W", "X", "Y", "Z", "0", "1", "2", "3", "4", "5", "6", "7",
    "8", "9", "_" }

\* Length of the greedy \w* run of s that starts at index i.
RECURSIVE WordRun(_, _)
WordRun(s, i) ==
  IF i <= Len(s) /\ s[i] \in WordChars THEN 1 + WordRun(s, i + 1) ELSE 0

\* (?:-\w+)* : index of the first character not consumed, starting at i.
RECURSIVE DashGroups(_, _)
DashGroups(s, i) ==
  IF i <= Len(s) /\ s[i] = "-" /\ WordRun(s, i + 1) > 0
  THEN DashGroups(s, i + 1 + WordRun(s, i + 1))
  ELSE i

\* Variant: the pattern without the hyphen groups, ^\/\w+ .
FindStringWordOnly(s) ==
  IF Len(s) >= 1 /\ s[1] = "/" /\ WordRun(s, 2) > 0
  THEN SubSeq(s, 1, 1 + WordRun(s, 2))
  ELSE <<>>

\* Variant: the pattern without the ^ anchor; the leftmost match is taken.
FindStringUnanchored(s) ==
  LET starts == { k \in 1..Len(s) : s[k] = "/" /\ WordRun(s, k + 1) > 0 }
  IN IF starts = {} THEN <<>>
     ELSE LET k == CHOOSE x \in starts : \A y \in starts : x <= y
          IN SubSeq(s, k, DashGroups(s, k + 1 + WordRun(s, k + 1)) - 1)

\* pattern.FindString(body) for ^\/\w+(?:-\w+)* ; <<>> is Go's "" (no match).
FindString(s) ==
  IF Len(s) >= 1 /\ s[1] = "/" /\ WordRun(s, 2) > 0
  THEN SubSeq(s, 1, DashGroups(s, 2 + WordRun(s, 2)) - 1)
  ELSE <<>>

\* slash_command := "None"; if match != "" { slash_command = match }
Classify(body) ==
  IF FindString(body) # <<>> THEN FindString(body) ELSE NoneCmd

\* strings.HasSuffix(author, "[bot]")
HasSuffix(s, suffix) ==
  /\ Len(s) >= Len(suffix)
  /\ SubSeq(s, Len(s) - Len(suffix) + 1, Len(s)) = suffix

\* ------------------------------------------------------------------- state
VARIABLES
  handler,          \* which version of Handle the deployment runs
  delivered,        \* number of webhook deliveries so far
  pc,               \* per run: the gateway call the run is about to make
  event,            \* per run: the payload being handled
  client,           \* per run: whether NewInstallationClient gave a client
  slash_command,    \* per run: the classified command
  baseBranchRef,    \* per run: SHA returned by GetRef (currentRef in part_000)
  newBranchRef,     \* per run: name of the reference returned by CreateRef
  newTreeRef,       \* per run: SHA of the tree returned by CreateTree
  latestCommitRef,  \* per run: SHA of the commit returned by GetCommit
  newCommitRef,     \* per run: SHA of the commit returned by CreateCommit
  newPRRef,         \* per run: number of the pull request returned, 0 = nil
  calls,            \* per run: the gateway calls attempted, in order
  result,           \* per run: what Handle returned
  refs,             \* remote: branch name -> SHA the branch points at
  trees,            \* remote: tree objects
  commits,          \* remote: commit objects
  pulls,            \* remote: pull requests, in creation order
  comments,         \* remote: issue comments posted, in order
  nextSha           \* remote: next unused object identifier

locals ==
  <<pc, event, client, slash_command, baseBranchRef, newBranchRef, newTreeRef,
    latestCommitRef, newCommitRef, newPRRef, calls, result>>

remote == <<refs, trees, commits, pulls, comments, nextSha>>

vars == <<handler, delivered, locals, remote>>

Handlers == { "testpr", "branch_pr", "branch_testpr" }

NoSha == 0
NoRef == ""
NoPR == 0

MainBranch == "main"
BotBranch == "my-bot-PR-branch"
NewBranch == "myNewBranch"
PRBranch == "pr-branch"
Branches == { MainBranch, BotBranch, NewBranch, PRBranch }

\* The hardcoded tree entries file1.txt / file2.txt.
FileEntries == <<"file1.txt", "file2.txt">>

\* The repository before the bot touches it: main and pr-branch point at one
\* root commit.
RootCommit == 1
RootTree == 2

Init ==
  /\ handler \in Handlers
  /\ delivered = 0
  /\ pc = [p \in Procs |-> "idle"]
  /\ event = [p \in Procs |-> Malformed]
  /\ client = [p \in Procs |-> FALSE]
  /\ slash_command = [p \in Procs |-> NoneCmd]
  /\ baseBranchRef = [p \in Procs |-> NoSha]
  /\ newBranchRef = [p \in Procs |-> NoRef]
  /\ newTreeRef = [p \in Procs |-> NoSha]
  /\ latestCommitRef = [p \in Procs |-> NoSha]
  /\ newCommitRef = [p \in Procs |-> NoSha]
  /\ newPRRef = [p \in Procs |-> NoPR]
  /\ calls = [p \in Procs |-> <<>>]
  /\ result = [p \in Procs |-> "none"]
  /\ refs = [b \in Branches |->
               IF b \in {MainBranch, PRBranch} THEN RootCommit ELSE NoSha]
  /\ trees = { [sha |-> RootTree, base |-> NoSha, entries |-> <<>>] }
  /\ commits = { [sha |-> RootCommit, tree |-> RootTree, parents |-> <<>>] }
  /\ pulls = <<>>
  /\ comments = <<>>
  /\ nextSha = 3

\* What a gateway call answers: the transport may fail (network, auth,
\* rate limit), or the remote side may reject the request.
Answer(up, accepted) ==
  IF ~up THEN "unavailable" ELSE IF ~accepted THEN "rejected" ELSE "none"

\* One attempted gateway call: the operation, what it was about (a branch
\* name or the kind of comment), the object hashes passed, the error
\* returned and the hash (or number) returned.
Call(op, what, args, err, ret) ==
  [op |-> op, what |-> what, args |-> args, ok |-> (err = "none"),
   err |-> err, ret |-> ret]

Record(p, c) == [calls EXCEPT ![p] = Append(@, c)]

\* return nil / return err / nil-pointer panic
Return(p, r) ==
  /\ pc' = [pc EXCEPT ![p] = "done"]
  /\ result' = [result EXCEPT ![p] = r]

Goto(p, l) ==
  /\ pc' = [pc EXCEPT ![p] = l]
  /\ UNCHANGED result

\* Where Handle goes after a gateway call: on to the next call, out with
\* return nil, or out with a nil-pointer panic.
Continue(p, next) ==
  IF next = "done" THEN Return(p, "nil")
  ELSE IF next = "panic" THEN Return(p, "panic")
  ELSE Goto(p, next)

\* ------------------------------------------------- remote gateway contract
\* What the remote side answers when the transport itself works.
CommitExists(sha) == \E c \in commits : c.sha = sha

TreeExists(sha) == \E t \in trees : t.sha = sha

ObjectExists(sha) == CommitExists(sha) \/ TreeExists(sha)

\* getReference fails if the ref is absent.
GetRefOk(name) == refs[name] # NoSha

\* createReference fails if the name collides or the target does not exist.
CreateRefOk(name, sha) == refs[name] = NoSha /\ CommitExists(sha)

\* createTree needs an existing base; trees are content-addressed, so the
\* same base and entries give the same hash.
CreateTreeOk(base) == ObjectExists(base)

TreeSha(base, entries) ==
  IF \E t \in trees : t.base = base /\ t.entries = entries
  THEN (CHOOSE t \in trees : t.base = base /\ t.entries = entries).sha
  ELSE nextSha

\* createCommit needs its tree and its parents to exist server-side.
CreateCommitOk(tree, parents) ==
  /\ TreeExists(tree)
  /\ \A i \in 1..Len(parents) : CommitExists(parents[i])

\* updateReference needs the ref and the new target; a forced update does
\* not look at what the ref points at.
RECURSIVE Reaches(_, _)
Reaches(from, to) ==
  \/ from = to
  \/ /\ CommitExists(from)
     /\ LET c == CHOOSE x \in commits : x.sha = from
        IN \E i \in 1..Len(c.parents) : Reaches(c.parents[i], to)

UpdateRefOk(name, forced, sha) ==
  /\ name \in Branches
  /\ refs[name] # NoSha
  /\ CommitExists(sha)
  /\ forced \/ Reaches(sha, refs[name])

\* createPullRequest needs head and base branches to exist.
CreatePROk(head, base) == refs[head] # NoSha /\ refs[base] # NoSha

\* ------------------------------------------------------------- the handlers
\* Variant: the error of json.Unmarshal is not looked at.
UnmarshalErrorIgnored(payload) == TRUE

\* json.Unmarshal(payload, &event) returned no error.
Unmarshal(payload) == payload.parsed

\* Variant: only deletions are filtered out.
IgnoredActionOnlyDeleted(action) == action = "deleted"

\* if event.GetAction() != "created" { return nil }
IgnoredAction(action) == action # "created"

\* Variant: only the author named exactly "[bot]" is filtered out.
IsBotExactName(author) == author = BotSuffix

\* if strings.HasSuffix(author, "[bot]") { return nil }
IsBot(author) == HasSuffix(author, BotSuffix)

\* The branch name each version creates with CreateRef.
BranchToCreate(h) == IF h = "branch_pr" THEN BotBranch ELSE NewBranch

\* The head branch of the pull request each version opens.
PRHead(h) == IF h = "branch_pr" THEN BotBranch ELSE PRBranch

\* The if-chain on slash_command that follows the acknowledgement comment.
Dispatch(h, cmd) ==
  CASE h = "testpr" ->
         IF cmd = CmdTestPR THEN "createPR" ELSE "done"
    [] h = "branch_pr" ->
         IF cmd = CmdCreateBranch THEN "getRef"
         ELSE IF cmd = CmdCreatePR THEN "createPR" ELSE "done"
    [] h = "branch_testpr" ->
         IF cmd = CmdCreateBranch THEN "getRef"
         ELSE IF cmd = CmdTestPR THEN "createPR" ELSE "done"

\* Variant: a failed acknowledgement is posted again.
AfterAckRetry(h, cmd, ok) == IF ok THEN Dispatch(h, cmd) ELSE "ack"

\* Variant: a failed acknowledgement ends the handling.
AfterAckReturn(h, cmd, ok) == IF ok THEN Dispatch(h, cmd) ELSE "done"

\* The error check after each gateway call.
\* Acknowledgement comment: the error is logged, the if-chain follows.
AfterAck(h, cmd, ok) == Dispatch(h, cmd)

AfterGetRef(ok) == IF ok THEN "createRef" ELSE "done"

\* Variant: a failed CreateRef ("already exists") is taken as success.
AfterCreateRefExistsIsFine(h, ok) ==
  IF h = "branch_pr" THEN "createTree" ELSE "done"

\* part_000 stops after CreateRef: no later test matches /create-branch.
AfterCreateRef(h, ok) ==
  IF ok /\ h = "branch_pr" THEN "createTree" ELSE "done"

\* Variant: the error of CreateTree is logged without a return.
AfterCreateTreeNoReturn(ok) == "getCommit"

AfterCreateTree(ok) == IF ok THEN "getCommit" ELSE "done"

\* Variant: a failed GetCommit is tried again.
AfterGetCommitRetry(ok) == IF ok THEN "createCommit" ELSE "getCommit"

\* Variant: the error of GetCommit is logged without a return.
AfterGetCommitNoReturn(ok) == "createCommit"

AfterGetCommit(ok) == IF ok THEN "createCommit" ELSE "done"

AfterCreateCommit(ok) == IF ok THEN "updateRef" ELSE "done"

\* Variant: the pull request is opened once the branch is complete.
AfterUpdateRefChainsPR(ok) == IF ok THEN "createPR" ELSE "done"

\* The /create-pr test that follows does not match /create-branch.
AfterUpdateRef(ok) == "done"

\* Variant: /create-pr also only logs the error and goes on to the comment.
AfterCreatePRLogOnly(h, ok) ==
  IF h = "branch_pr" THEN "linkComment"
  ELSE IF ok THEN "done" ELSE "panic"

\* /create-pr returns nil on the error.  /testpr only logs the error and
\* then evaluates *newPR.Number with newPR = nil.
AfterCreatePR(h, ok) ==
  IF h = "branch_pr"
  THEN IF ok THEN "linkComment" ELSE "done"
  ELSE IF ok THEN "done" ELSE "panic"

AfterPostLink(ok) == "done"

\* Variant: an error branch deletes the branch the run created.
LogErrorRollback(p) ==
  /\ refs' = [b \in Branches |->
                IF b = newBranchRef[p] THEN NoSha ELSE refs[b]]
  /\ UNCHANGED <<trees, commits>>

\* logger.Error().Err(err).Msg(...): an error branch only logs; it makes no
\* compensating gateway call.
LogError(p) == UNCHANGED <<refs, trees, commits>>

\* Handle from its entry to the first gateway call: parse, filter on the
\* action, create the installation client, filter bots, classify.
DeliverFrom(p, payloads) ==
  /\ pc[p] \in {"idle", "done"}
  /\ delivered < MaxEvents
  /\ delivered' = delivered + 1
  /\ \E payload \in payloads :
       /\ event' = [event EXCEPT ![p] = payload]
       /\ calls' = [calls EXCEPT ![p] = <<>>]
       /\ baseBranchRef' = [baseBranchRef EXCEPT ![p] = NoSha]
       /\ newBranchRef' = [newBranchRef EXCEPT ![p] = NoRef]
       /\ newTreeRef' = [newTreeRef EXCEPT ![p] = NoSha]
       /\ latestCommitRef' = [latestCommitRef EXCEPT ![p] = NoSha]
       /\ newCommitRef' = [newCommitRef EXCEPT ![p] = NoSha]
       /\ newPRRef' = [newPRRef EXCEPT ![p] = NoPR]
       /\ IF ~Unmarshal(payload)
          THEN /\ Return(p, "error")
               /\ client' = [client EXCEPT ![p] = FALSE]
               /\ slash_command' = [slash_command EXCEPT ![p] = NoneCmd]
          ELSE IF IgnoredAction(payload.action)
          THEN /\ Return(p, "nil")
               /\ client' = [client EXCEPT ![p] = FALSE]
               /\ slash_command' = [slash_command EXCEPT ![p] = NoneCmd]
          ELSE \E clientOk \in BOOLEAN :
                 /\ client' = [client EXCEPT ![p] = clientOk]
                 /\ IF ~clientOk
                    THEN /\ Return(p, "error")
                         /\ slash_command' =
                              [slash_command EXCEPT ![p] = NoneCmd]
                    ELSE IF IsBot(payload.author)
                    THEN /\ Return(p, "nil")
                         /\ slash_command' =
                              [slash_command EXCEPT ![p] = NoneCmd]
                    ELSE /\ pc' = [pc EXCEPT ![p] = "ack"]
                         /\ result' = [result EXCEPT ![p] = "none"]
                         /\ slash_command' =
                              [slash_command EXCEPT ![p] =
                                 Classify(payload.body)]
  /\ UNCHANGED <<handler, remote>>

\* A delivery of one of the hand-picked payloads.
Deliver(p) == DeliverFrom(p, Payloads)

\* A delivery of a comment by a human author with any short text as body.
DeliverText(p) == DeliverFrom(p, TextPayloads)

\* client.Issues.CreateComment with the echo of the comment
PostAck(p) ==
  /\ pc[p] = "ack"
  /\ \E ok \in BOOLEAN :
       /\ calls' = Record(p, Call("createIssueComment", "ack", <<>>,
                                  Answer(ok, TRUE), NoSha))
       /\ IF ok
          THEN comments' = Append(comments, "ack") /\ UNCHANGED <<refs, trees, commits>>
          ELSE UNCHANGED comments /\ LogError(p)
       /\ Continue(p, AfterAck(handler, slash_command[p], ok))
  /\ UNCHANGED <<handler, delivered, event, client, slash_command, baseBranchRef,
                 newBranchRef, newTreeRef, latestCommitRef, newCommitRef,
                 newPRRef, pulls, nextSha>>

\* client.Git.GetRef(ctx, repoOwner, repoName, "heads/main")
GetRef(p) ==
  /\ pc[p] = "getRef"
  /\ \E up \in BOOLEAN :
       LET err == Answer(up, GetRefOk(MainBranch))
           ok == err = "none"
           sha == IF ok THEN refs[MainBranch] ELSE NoSha
       IN /\ calls' = Record(p, Call("getReference", MainBranch, <<>>, err, sha))
          /\ baseBranchRef' = [baseBranchRef EXCEPT ![p] = sha]
          /\ IF ok THEN UNCHANGED <<refs, trees, commits>> ELSE LogError(p)
          /\ Continue(p, AfterGetRef(ok))
  /\ UNCHANGED <<handler, delivered, event, client, slash_command, newBranchRef,
                 newTreeRef, latestCommitRef, newCommitRef, newPRRef, pulls,
                 comments, nextSha>>

\* client.Git.CreateRef with the SHA of the base branch
CreateRef(p) ==
  /\ pc[p] = "createRef"
  /\ \E up \in BOOLEAN :
       LET name == BranchToCreate(handler)
           err == Answer(up, CreateRefOk(name, baseBranchRef[p]))
           ok == err = "none"
       IN /\ calls' = Record(p, Call("createReference", name,
                                     <<baseBranchRef[p]>>, err,
                                     IF ok THEN baseBranchRef[p] ELSE NoSha))
          /\ newBranchRef' = [newBranchRef EXCEPT ![p] =
                                IF ok THEN name ELSE NoRef]
          /\ IF ok
             THEN /\ refs' = [refs EXCEPT ![name] = baseBranchRef[p]]
                  /\ UNCHANGED <<trees, commits>>
             ELSE LogError(p)
          /\ Continue(p, AfterCreateRef(handler, ok))
  /\ UNCHANGED <<handler, delivered, event, client, slash_command, baseBranchRef,
                 newTreeRef, latestCommitRef, newCommitRef, newPRRef, pulls,
                 comments, nextSha>>

\* client.Git.CreateTree with the base SHA and the two file entries
CreateTree(p) ==
  /\ pc[p] = "createTree"
  /\ \E up \in BOOLEAN :
       LET base == baseBranchRef[p]
           err == Answer(up, CreateTreeOk(base))
           ok == err = "none"
           sha == IF ok THEN TreeSha(base, FileEntries) ELSE NoSha
       IN /\ calls' = Record(p, Call("createTree", "", <<base>>, err, sha))
          /\ newTreeRef' = [newTreeRef EXCEPT ![p] = sha]
          /\ nextSha' = IF ok /\ sha = nextSha THEN nextSha + 1 ELSE nextSha
          /\ IF ok
             THEN /\ trees' = trees \cup { [sha |-> sha, base |-> base,
                                            entries |-> FileEntries] }
                  /\ UNCHANGED <<refs, commits>>
             ELSE LogError(p)
          /\ Continue(p, AfterCreateTree(ok))
  /\ UNCHANGED <<handler, delivered, event, client, slash_command, baseBranchRef,
                 newBranchRef, latestCommitRef, newCommitRef, newPRRef,
                 pulls, comments>>

\* client.Git.GetCommit of the base SHA
GetCommit(p) ==
  /\ pc[p] = "getCommit"
  /\ \E up \in BOOLEAN :
       LET err == Answer(up, CommitExists(baseBranchRef[p]))
           ok == err = "none"
           sha == IF ok THEN baseBranchRef[p] ELSE NoSha
       IN /\ calls' = Record(p, Call("getCommit", "", <<baseBranchRef[p]>>,
                                     err, sha))
          /\ latestCommitRef' = [latestCommitRef EXCEPT ![p] = sha]
          /\ IF ok THEN UNCHANGED <<refs, trees, commits>> ELSE LogError(p)
          /\ Continue(p, AfterGetCommit(ok))
  /\ UNCHANGED <<handler, delivered, event, client, slash_command, baseBranchRef,
                 newBranchRef, newTreeRef, newCommitRef, newPRRef, pulls,
                 comments, nextSha>>

\* Tree: newTreeRef
CommitTree(p) == newTreeRef[p]

\* Variant: the commit is created without its parent.
CommitParentsNone(p) == <<>>

\* Parents: []*github.Commit{latestCommitRef}
CommitParents(p) == <<latestCommitRef[p]>>

\* client.Git.CreateCommit with Tree: newTreeRef, Parents: {latestCommitRef}
CreateCommit(p) ==
  /\ pc[p] = "createCommit"
  /\ \E up \in BOOLEAN :
       LET tree == CommitTree(p)
           parents == CommitParents(p)
           err == Answer(up, CreateCommitOk(tree, parents))
           ok == err = "none"
           sha == IF ok THEN nextSha ELSE NoSha
       IN /\ calls' = Record(p, Call("createCommit", "",
                                     <<tree>> \o parents, err, sha))
          /\ newCommitRef' = [newCommitRef EXCEPT ![p] = sha]
          /\ nextSha' = IF ok THEN nextSha + 1 ELSE nextSha
          /\ IF ok
             THEN /\ commits' = commits \cup { [sha |-> sha, tree |-> tree,
                                                parents |-> parents] }
                  /\ UNCHANGED <<refs, trees>>
             ELSE LogError(p)
          /\ Continue(p, AfterCreateCommit(ok))
  /\ UNCHANGED <<handler, delivered, event, client, slash_command, baseBranchRef,
                 newBranchRef, newTreeRef, latestCommitRef, newPRRef, pulls,
                 comments>>

\* Variant: the update goes to the base branch.
UpdateTargetMain(p) == MainBranch

\* The reference passed to UpdateRef: newBranchRef
UpdateTarget(p) == newBranchRef[p]

\* The force argument passed to UpdateRef: true
ForceUpdate == TRUE

\* client.Git.UpdateRef(newBranchRef, true, newCommitRef.SHA)
UpdateRef(p) ==
  /\ pc[p] = "updateRef"
  /\ \E up \in BOOLEAN :
       LET name == UpdateTarget(p)
           err == Answer(up, UpdateRefOk(name, ForceUpdate, newCommitRef[p]))
           ok == err = "none"
       IN /\ calls' = Record(p, [forced |-> ForceUpdate] @@
                                Call("updateReference", name,
                                     <<newCommitRef[p]>>, err,
                                     IF ok THEN newCommitRef[p] ELSE NoSha))
          /\ IF ok
             THEN /\ refs' = [refs EXCEPT ![name] = newCommitRef[p]]
                  /\ UNCHANGED <<trees, commits>>
             ELSE LogError(p)
          /\ Continue(p, AfterUpdateRef(ok))
  /\ UNCHANGED <<handler, delivered, event, client, slash_command, baseBranchRef,
                 newBranchRef, newTreeRef, latestCommitRef, newCommitRef,
                 newPRRef, pulls, comments, nextSha>>

\* client.PullRequests.Create; go-github returns a nil *PullRequest together
\* with the error.
CreatePR(p) ==
  /\ pc[p] = "createPR"
  /\ \E up \in BOOLEAN :
       LET head == PRHead(handler)
           err == Answer(up, CreatePROk(head, MainBranch))
           ok == err = "none"
           number == IF ok THEN Len(pulls) + 1 ELSE NoPR
       IN /\ calls' = Record(p, Call("createPullRequest", head, <<>>, err,
                                     number))
          /\ newPRRef' = [newPRRef EXCEPT ![p] = number]
          /\ IF ok
             THEN /\ pulls' = Append(pulls, [number |-> number, head |-> head,
                                             base |-> MainBranch])
                  /\ UNCHANGED <<refs, trees, commits>>
             ELSE UNCHANGED pulls /\ LogError(p)
          /\ Continue(p, AfterCreatePR(handler, ok))
  /\ UNCHANGED <<handler, delivered, event, client, slash_command, baseBranchRef,
                 newBranchRef, newTreeRef, latestCommitRef, newCommitRef,
                 comments, nextSha>>

\* client.Issues.CreateComment with the link to the pull request
PostLink(p) ==
  /\ pc[p] = "linkComment"
  /\ \E ok \in BOOLEAN :
       /\ calls' = Record(p, Call("createIssueComment", "link", <<>>,
                                  Answer(ok, TRUE), newPRRef[p]))
       /\ IF ok
          THEN comments' = Append(comments, "link") /\ UNCHANGED <<refs, trees, commits>>
          ELSE UNCHANGED comments /\ LogError(p)
       /\ Continue(p, AfterPostLink(ok))
  /\ UNCHANGED <<handler, delivered, event, client, slash_command, baseBranchRef,
                 newBranchRef, newTreeRef, latestCommitRef, newCommitRef,
                 newPRRef, pulls, nextSha>>

\* The gateway calls of a run.
Work(p) ==
  \/ PostAck(p)
  \/ GetRef(p)
  \/ CreateRef(p)
  \/ CreateTree(p)
  \/ GetCommit(p)
  \/ CreateCommit(p)
  \/ UpdateRef(p)
  \/ CreatePR(p)
  \/ PostLink(p)

Step(p) ==
  \/ Deliver(p)
  \/ Work(p)

Next == \E p \in Procs : Step(p)

Spec == Init /\ [][Next]_vars

\* One run at a time, fed with every short text over TextAlphabet and with
\* the hand-picked bodies.
NextTexts == DeliverText(1) \/ Work(1)

SpecTexts == Init /\ [][NextTexts]_vars

\* ------------------------------------------------------------------ claims
Last(seq) == seq[Len(seq)]

\* The calls of a run with the given operation.
CallsOf(p, op) == { i \in 1..Len(calls[p]) : calls[p][i].op = op }

\* The event passed both filters of Handle.
Processed(p) ==
  /\ event[p].parsed
  /\ event[p].action = "created"
  /\ ~HasSuffix(event[p].author, BotSuffix)

BranchOps ==
  <<"getReference", "createReference", "createTree", "getCommit",
    "createCommit", "updateReference">>

IsBranchOp(op) == \E k \in 1..Len(BranchOps) : BranchOps[k] = op

\* C1: an event whose action is not "created" makes Handle return nil with
\* no gateway call and no comment post, whatever the author and the body.
C1_NonCreatedIgnored ==
  \A p \in Procs :
    (event[p].parsed /\ event[p].action # "created")
      => /\ pc[p] = "done"
         /\ calls[p] = <<>>
         /\ result[p] = "nil"

C1_Witness ==
  \E p \in Procs :
    /\ event[p].parsed
    /\ event[p].action = "edited"
    /\ event[p].author = AuthorAlice
    /\ event[p].body = CmdCreateBranch
    /\ pc[p] = "done"
    /\ result[p] = "nil"

\* C2: a "created" event whose author ends with "[bot]" makes Handle stop
\* with no gateway call and no comment post, also for a recognized command.
C2_BotAuthorIgnored ==
  \A p \in Procs :
    (event[p].parsed /\ event[p].action = "created"
       /\ HasSuffix(event[p].author, BotSuffix))
      => /\ pc[p] = "done"
         /\ calls[p] = <<>>
         /\ result[p] \in {"nil", "error"}

C2_Witness ==
  \E p \in Procs :
    /\ event[p].parsed
    /\ event[p].action = "created"
    /\ event[p].author = AuthorApp
    /\ event[p].body \in {CmdCreateBranch, CmdCreatePR, CmdTestPR}
    /\ client[p]
    /\ pc[p] = "done"
    /\ result[p] = "nil"

\* C3: in the branch-creation workflow a failed gateway call is the last
\* call of the run, and Handle has returned nil.
C3_BranchFailureStops ==
  \A p \in Procs :
    \A i \in 1..Len(calls[p]) :
      (IsBranchOp(calls[p][i].op) /\ ~calls[p][i].ok)
        => /\ i = Len(calls[p])
           /\ pc[p] = "done"
           /\ result[p] = "nil"

C3_Witness ==
  \E p \in Procs :
    /\ Len(calls[p]) = 4
    /\ calls[p][2].op = "getReference" /\ calls[p][2].ok
    /\ calls[p][3].op = "createReference" /\ calls[p][3].ok
    /\ calls[p][4].op = "createTree" /\ ~calls[p][4].ok
    /\ pc[p] = "done"
    /\ result[p] = "nil"

\* C4: a failed createPullRequest is the last call of the run (its result is
\* not used, no link comment follows) and Handle has returned nil.
C4_PRFailureStops ==
  \A p \in Procs :
    \A i \in CallsOf(p, "createPullRequest") :
      ~calls[p][i].ok
        => /\ i = Len(calls[p])
           /\ pc[p] = "done"
           /\ result[p] = "nil"

\* C5 as stated: every processed event has exactly one acknowledgement
\* call, made before any other call.
C5_AckForEveryProcessed ==
  \A p \in Procs :
    (Processed(p) /\ pc[p] = "done")
      => /\ Len(calls[p]) >= 1
         /\ calls[p][1].what = "ack"
         /\ Cardinality({ i \in 1..Len(calls[p]) : calls[p][i].what = "ack" }) = 1

\* C5 amended: every processed event for which the installation client was
\* created has exactly one acknowledgement call, made before any other call
\* of the run; while it is pending no call has been made.
C5_AckOnceFirst ==
  \A p \in Procs :
    (Processed(p) /\ client[p])
      => IF pc[p] = "ack"
         THEN calls[p] = <<>>
         ELSE /\ Len(calls[p]) >= 1
              /\ calls[p][1].op = "createIssueComment"
              /\ calls[p][1].what = "ack"
              /\ \A i \in 2..Len(calls[p]) : calls[p][i].what # "ack"

C5_Witness ==
  \E p, q \in Procs :
    /\ Processed(p) /\ client[p] /\ pc[p] = "done"
    /\ slash_command[p] = NoneCmd
    /\ Len(calls[p]) = 1
    /\ Processed(q) /\ client[q]
    /\ slash_command[q] = CmdCreateBranch
    /\ Len(calls[q]) >= 3
    /\ ~calls[q][1].ok

\* The workflow part of a run: the calls after the acknowledgement.
Workflow(p) == Tail(calls[p])

Min(a, b) == IF a <= b THEN a ELSE b

\* Two runs got the same answers from the gateway on the workflow calls
\* both of them made.
SameAnswers(p, q) ==
  \A i \in 1..Min(Len(Workflow(p)), Len(Workflow(q))) :
    Workflow(p)[i].ok = Workflow(q)[i].ok

\* C6: two finished runs of the same command, one whose acknowledgement
\* post succeeded and one whose post failed, that got the same answers on
\* the other calls made the same sequence of calls and returned the same.
C6_AckFailureIrrelevant ==
  \A p, q \in Procs :
    (/\ pc[p] = "done" /\ pc[q] = "done"
     /\ Len(calls[p]) >= 1 /\ Len(calls[q]) >= 1
     /\ slash_command[p] = slash_command[q]
     /\ calls[p][1].ok /\ ~calls[q][1].ok
     /\ SameAnswers(p, q))
      => /\ Len(Workflow(p)) = Len(Workflow(q))
         /\ \A i \in 1..Len(Workflow(p)) :
              Workflow(p)[i].op = Workflow(q)[i].op
         /\ result[p] = result[q]

C6_Witness ==
  \E p, q \in Procs :
    /\ pc[p] = "done" /\ pc[q] = "done"
    /\ slash_command[p] = CmdCreateBranch
    /\ slash_command[q] = CmdCreateBranch
    /\ Len(calls[p]) = 3 /\ Len(calls[q]) = 3
    /\ calls[p][1].ok /\ ~calls[q][1].ok
    /\ calls[p][2].ok /\ calls[q][2].ok
    /\ ~calls[p][3].ok /\ ~calls[q][3].ok
    /\ result[p] = "nil" /\ result[q] = "nil"

\* The branch the deployed version creates in /create-branch.
FixedBranch == IF handler = "branch_pr" THEN BotBranch ELSE NewBranch

\* C7: a run that reaches CreateRef when the fixed branch already exists has
\* called GetRef, fails at CreateRef, makes no further call, returns nil and
\* leaves every reference as it was.
C7_SecondRunAbortsAtCreateRef ==
  [][\A p \in Procs :
       (pc[p] = "createRef" /\ refs[FixedBranch] # NoSha /\ calls'[p] # calls[p])
         => /\ Len(calls'[p]) = 3
            /\ calls'[p][2].op = "getReference" /\ calls'[p][2].ok
            /\ calls'[p][3].op = "createReference" /\ ~calls'[p][3].ok
            /\ pc'[p] = "done"
            /\ result'[p] = "nil"
            /\ refs' = refs]_vars

\* A run rejected at CreateRef while the branch points where the complete
\* run of the other process left it.
C7_Witness ==
  \E p, q \in Procs :
    /\ p # q
    /\ pc[q] = "done" /\ Len(calls[q]) = 7 /\ calls[q][7].ok
    /\ refs[BotBranch] = newCommitRef[q]
    /\ pc[p] = "done" /\ Len(calls[p]) = 3
    /\ calls[p][3].op = "createReference"
    /\ calls[p][3].err = "rejected"
    /\ result[p] = "nil"

\* C8: when a step fails after CreateRef succeeded, the branch the run
\* created still points at the base commit, and the tree and the commit the
\* run created still exist.
C8_NoRollback ==
  \A p \in Procs :
    (/\ Len(calls[p]) >= 4
     /\ calls[p][3].op = "createReference" /\ calls[p][3].ok
     /\ ~Last(calls[p]).ok)
      => /\ refs[calls[p][3].what] = calls[p][2].ret
         /\ calls[p][2].ret # NoSha
         /\ \A i \in 4..Len(calls[p]) :
              /\ (calls[p][i].op = "createTree" /\ calls[p][i].ok)
                   => TreeExists(calls[p][i].ret)
              /\ (calls[p][i].op = "createCommit" /\ calls[p][i].ok)
                   => CommitExists(calls[p][i].ret)

C8_Witness ==
  \E p \in Procs :
    /\ Len(calls[p]) = 7
    /\ calls[p][6].op = "createCommit" /\ calls[p][6].ok
    /\ calls[p][7].op = "updateReference" /\ ~calls[p][7].ok
    /\ refs[BotBranch] = RootCommit
    /\ CommitExists(newCommitRef[p])
    /\ TreeExists(newTreeRef[p])

\* C9: the workflow calls of a /create-branch run are a prefix of the fixed
\* sequence, each made once, and every call but the last has succeeded.
C9_BranchCallsArePrefix ==
  \A p \in Procs :
    (Len(calls[p]) >= 1 /\ slash_command[p] = CmdCreateBranch)
      => /\ Len(Workflow(p)) <= Len(BranchOps)
         /\ \A i \in 1..Len(Workflow(p)) :
              /\ Workflow(p)[i].op = BranchOps[i]
              /\ i < Len(Workflow(p)) => Workflow(p)[i].ok
         /\ Len(Workflow(p)) >= 1 => Workflow(p)[1].what = MainBranch

C9_Witness ==
  \E p \in Procs :
    /\ Len(calls[p]) = 7
    /\ slash_command[p] = CmdCreateBranch
    /\ Len(Workflow(p)) = 6
    /\ \A i \in 1..6 : Workflow(p)[i].ok
    /\ pc[p] = "done"

\* C10: a processed comment whose body does not start with "/" is
\* classified as None, gets the acknowledgement only, and Handle returns nil.
C10_NoLeadingSlashIsNone ==
  \A p \in Procs :
    (/\ Processed(p) /\ client[p]
     /\ (Len(event[p].body) = 0 \/ event[p].body[1] # "/"))
      => /\ slash_command[p] = NoneCmd
         /\ pc[p] \in {"ack", "done"}
         /\ Len(calls[p]) <= 1
         /\ pc[p] = "done" => (Len(calls[p]) = 1 /\ result[p] = "nil")

C10_Witness ==
  \E p, q \in Procs :
    /\ Processed(p) /\ client[p] /\ event[p].body = BodySeeFoo
    /\ pc[p] = "done" /\ Len(calls[p]) = 1
    /\ Processed(q) /\ client[q] /\ event[q].body = BodyLeadingSpace
    /\ pc[q] = "done" /\ Len(calls[q]) = 1

\* A text of the form slash, word characters, then groups of a hyphen and
\* word characters.
IsToken(t) ==
  /\ Len(t) >= 2
  /\ t[1] = "/"
  /\ t[2] \in WordChars
  /\ t[Len(t)] \in WordChars
  /\ \A i \in 2..Len(t) : t[i] \in WordChars \cup {"-"}
  /\ \A i \in 2..(Len(t) - 1) : ~(t[i] = "-" /\ t[i + 1] = "-")

\* The longest prefix of s that is a token; <<>> if there is none.
LongestToken(s) ==
  LET ks == { k \in 1..Len(s) : IsToken(SubSeq(s, 1, k)) }
  IN IF ks = {} THEN <<>>
     ELSE SubSeq(s, 1, CHOOSE k \in ks : \A j \in ks : j <= k)

\* C11: a processed body that starts with a slash and a word character is
\* classified as its longest token prefix; "/create-branch please" gives
\* /create-branch and starts the branch workflow, "/create-branch-now" gives
\* /create-branch-now and starts no workflow; a workflow starts only for a
\* command equal to one of the three tokens.
C11_LongestTokenPrefix ==
  \A p \in Procs :
    (/\ Processed(p) /\ client[p]
     /\ Len(event[p].body) >= 2
     /\ event[p].body[1] = "/"
     /\ event[p].body[2] \in WordChars)
      => /\ slash_command[p] = LongestToken(event[p].body)
         /\ event[p].body = BodyBranchPlease
              => /\ slash_command[p] = CmdCreateBranch
                 /\ (handler # "testpr" /\ pc[p] # "ack")
                      => \/ pc[p] = "getRef"
                         \/ /\ Len(calls[p]) >= 2
                            /\ calls[p][2].op = "getReference"
         /\ event[p].body = BodyBranchNow
              => /\ slash_command[p] = BodyBranchNow
                 /\ Len(calls[p]) <= 1
         /\ Len(calls[p]) >= 2
              => slash_command[p] \in {CmdCreateBranch, CmdCreatePR, CmdTestPR}

C11_Witness ==
  \E p \in Procs :
    /\ Processed(p) /\ client[p]
    /\ event[p].body = BodyBranchPlease
    /\ slash_command[p] = CmdCreateBranch
    /\ Len(calls[p]) = 3
    /\ calls[p][3].op = "createReference" /\ calls[p][3].ok

\* C12: an unparsable payload makes Handle return an error with no gateway
\* call; any other error Handle returns is the error of
\* NewInstallationClient, not something the payload caused.
C12_MalformedIsTheOnlyInputError ==
  \A p \in Procs :
    /\ (pc[p] # "idle" /\ ~event[p].parsed)
         => /\ pc[p] = "done"
            /\ result[p] = "error"
            /\ calls[p] = <<>>
    /\ (result[p] = "error" /\ event[p].parsed)
         => /\ ~client[p]
            /\ event[p].action = "created"
            /\ calls[p] = <<>>

C12_Witness ==
  \E p \in Procs :
    /\ pc[p] = "done"
    /\ event[p] = Malformed
    /\ result[p] = "error"
    /\ calls[p] = <<>>

\* The run made all six calls of the branch workflow and all succeeded.
BranchComplete(p) ==
  /\ Len(calls[p]) = 7
  /\ \A i \in 2..7 : calls[p][i].op = BranchOps[i - 1] /\ calls[p][i].ok

\* C13: after a complete branch workflow the bot branch points at the commit
\* CreateCommit returned, and that commit as stored remotely has the tree
\* CreateTree returned and exactly the commit GetRef returned as parent.
C13_CompleteWorkflowResult ==
  \A p \in Procs :
    BranchComplete(p)
      => /\ refs[BotBranch] = calls[p][6].ret
         /\ \E c \in commits :
              /\ c.sha = calls[p][6].ret
              /\ c.tree = calls[p][4].ret
              /\ c.parents = <<calls[p][2].ret>>
         /\ \A c, d \in commits : c.sha = d.sha => c = d

C13_Witness ==
  \E p \in Procs :
    /\ BranchComplete(p)
    /\ pc[p] = "done"
    /\ refs[BotBranch] = newCommitRef[p]
    /\ newCommitRef[p] # RootCommit

Range(seq) == { seq[i] : i \in 1..Len(seq) }

\* C14: every object hash a workflow call passes was returned by an earlier
\* successful call of the same run, and the object exists remotely.
C14_HashesComeFromEarlierCalls ==
  \A p \in Procs :
    \A i \in 1..Len(calls[p]) :
      \A a \in Range(calls[p][i].args) :
        /\ a # NoSha
        /\ ObjectExists(a)
        /\ \E j \in 1..(i - 1) :
             /\ IsBranchOp(calls[p][j].op)
             /\ calls[p][j].ok
             /\ calls[p][j].ret = a

C14_Witness ==
  \E p \in Procs :
    /\ BranchComplete(p)
    /\ calls[p][6].args = <<calls[p][4].ret, calls[p][5].ret>>
    /\ calls[p][7].args = <<calls[p][6].ret>>
    /\ calls[p][3].args = <<calls[p][2].ret>>

\* C15: an UpdateRef call is the seventh call of its run, names the
\* reference the run's own CreateRef returned, carries the force flag and
\* is never rejected; the base branch is never the target of CreateRef or
\* UpdateRef and keeps pointing where it did.
C15_OnlyOwnBranchUpdated ==
  /\ refs[MainBranch] = RootCommit
  /\ \A p \in Procs :
       \A i \in 1..Len(calls[p]) :
         /\ calls[p][i].op \in {"createReference", "updateReference"}
              => calls[p][i].what # MainBranch
         /\ calls[p][i].op = "updateReference"
              => /\ i = 7
                 /\ calls[p][3].op = "createReference" /\ calls[p][3].ok
                 /\ calls[p][i].what = calls[p][3].what
                 /\ calls[p][i].forced
                 /\ calls[p][i].err # "rejected"

C15_Witness ==
  \E p \in Procs :
    /\ BranchComplete(p)
    /\ calls[p][7].what = BotBranch
    /\ calls[p][7].forced
    /\ refs[BotBranch] = calls[p][7].ret
    /\ refs[MainBranch] = RootCommit

\* The comment posts of a run carrying the pull-request link.
LinkCalls(p) == { i \in 1..Len(calls[p]) : calls[p][i].what = "link" }

\* C16: the link comment directly follows a successful createPullRequest and
\* carries what that call returned; it is posted at most once, a run posts
\* at most two comments, and after the link post, whatever its outcome,
\* Handle has returned nil.
C16_LinkAfterPRSuccess ==
  \A p \in Procs :
    /\ Cardinality(LinkCalls(p)) <= 1
    /\ Cardinality(CallsOf(p, "createIssueComment")) <= 2
    /\ \A i \in LinkCalls(p) :
         /\ i = 3
         /\ calls[p][i].op = "createIssueComment"
         /\ calls[p][i - 1].op = "createPullRequest"
         /\ calls[p][i - 1].ok
         /\ calls[p][i - 1].ret # NoPR
         /\ calls[p][i].ret = calls[p][i - 1].ret
         /\ pc[p] = "done"
         /\ result[p] = "nil"
    /\ \A i \in CallsOf(p, "createPullRequest") :
         ~calls[p][i].ok => LinkCalls(p) = {}

C16_Witness ==
  \E p \in Procs :
    /\ handler = "branch_pr"
    /\ slash_command[p] = CmdCreatePR
    /\ Len(calls[p]) = 3
    /\ calls[p][2].op = "createPullRequest" /\ calls[p][2].ok
    /\ calls[p][3].what = "link" /\ ~calls[p][3].ok
    /\ pc[p] = "done"
    /\ result[p] = "nil"

\* The runs whose CreateRef of the fixed branch succeeded.
Creators ==
  { p \in Procs : \E i \in CallsOf(p, "createReference") : calls[p][i].ok }

\* C17: of the runs going on or finished, at most one got past CreateRef;
\* only a run that got past it has called CreateTree, GetCommit,
\* CreateCommit or UpdateRef; and the fixed branch is absent, at the base
\* commit, or at the commit that run created.
C17_OneCreator ==
  /\ Cardinality(Creators) <= 1
  /\ \A p \in Procs :
       (p \notin Creators)
         => /\ \A i \in 1..Len(calls[p]) :
                 calls[p][i].op \notin
                   {"createTree", "getCommit", "createCommit",
                    "updateReference"}
            /\ pc[p] \notin {"createTree", "getCommit", "createCommit",
                             "updateRef"}
  /\ Cardinality(commits) <= 2
  /\ Cardinality(trees) <= 2
  /\ \/ refs[FixedBranch] \in {NoSha, RootCommit}
     \/ \E p \in Creators :
          \E i \in CallsOf(p, "updateReference") :
            calls[p][i].ok /\ refs[FixedBranch] = calls[p][i].ret
     \/ Creators = {}

\* One run is between CreateRef and UpdateRef while the other, started on
\* the same command, has been rejected at CreateRef.
C17_Witness ==
  \E p, q \in Procs :
    /\ p # q
    /\ slash_command[p] = CmdCreateBranch
    /\ slash_command[q] = CmdCreateBranch
    /\ p \in Creators
    /\ pc[p] = "createCommit"
    /\ pc[q] = "done"
    /\ Len(calls[q]) = 3
    /\ calls[q][3].op = "createReference"
    /\ calls[q][3].err = "rejected"

\* C18: no run makes both a call of the branch workflow and a
\* createPullRequest call; in particular a run that opens a pull request has
\* not created a reference.
C18_OneWorkflowPerEvent ==
  \A p \in Procs :
    \A i, j \in 1..Len(calls[p]) :
      ~(IsBranchOp(calls[p][i].op) /\ calls[p][j].op = "createPullRequest")

\* A /create-pr run opened the pull request on a branch another run created.
C18_Witness ==
  \E p, q \in Procs :
    /\ p # q
    /\ q \in Creators
    /\ handler = "branch_pr"
    /\ slash_command[p] = CmdCreatePR
    /\ Len(calls[p]) >= 2
    /\ calls[p][2].op = "createPullRequest" /\ calls[p][2].ok
    /\ calls[p][2].what = BotBranch
    /\ CallsOf(p, "createReference") = {}

====
